---- MODULE Spec2Model ----
(***************************************************************************)
(* JellyfinDownloader, src/main.go: the command line client's run from     *)
(* flag parsing to process exit.  Text that the program parses or trims    *)
(* (the URL, the lines read from standard input) is a sequence of          *)
(* one-character strings; flags that are only compared with "" are plain   *)
(* strings.                                                                *)
(***************************************************************************)
EXTENDS Integers, Sequences, FiniteSets, TLC

(* ------------------------------ bounds --------------------------------- *)

\* Longest list a text search returns.
MaxItems == 2

\* Longest line typed at the "Continue? y/n: " prompt.
MaxLineLen == 4

(* --------------------------- text helpers ------------------------------ *)

Digits == <<"0", "1", "2", "3", "4", "5", "6", "7", "8", "9">>

Letters ==
    {"a", "b", "c", "d", "e", "f", "g", "h", "i", "j", "k", "l", "m",
     "n", "o", "p", "q", "r", "s", "t", "u", "v", "w", "x", "y", "z",
     "A", "B", "C", "D", "E", "F", "G", "H", "I", "J", "K", "L", "M",
     "N", "O", "P", "Q", "R", "S", "T", "U", "V", "W", "X", "Y", "Z"}

\* regexp class \d
IsDigit(c) == \E i \in 1..10 : Digits[i] = c

\* regexp class \w (RE2: ASCII letters, digits, underscore)
IsWord(c) == IsDigit(c) \/ c \in Letters \/ c = "_"

\* regexp class [\d\w._-]
HostChar(c) == IsDigit(c) \/ IsWord(c) \/ c \in {".", "_", "-"}

\* regexp class [/\d\w._-]
PathChar(c) == c = "/" \/ HostChar(c)

AllDigit(s) == \A i \in 1..Len(s) : IsDigit(s[i])

AllHost(s) == \A i \in 1..Len(s) : HostChar(s[i])

AllPath(s) == \A i \in 1..Len(s) : PathChar(s[i])

\* (:\d+)? applied to exactly the text s
MatchPort(s) == s = <<>> \/ (Len(s) >= 2 /\ s[1] = ":" /\ AllDigit(Tail(s)))

\* \/?([/\d\w._-]*?)?$ applied to exactly the text s
MatchTail(s) ==
    \E sl \in 0..1 :
        /\ Len(s) >= sl
        /\ (sl = 1 => s[1] = "/")
        /\ AllPath(SubSeq(s, sl + 1, Len(s)))

\* https?\:\/\/[\d\w._-]+(:\d+)?\/?([/\d\w._-]*?)?$ matched at the start of s
MatchAt(s) ==
    \E sec \in 0..1 : \E h \in 1..Len(s) : \E p \in 0..Len(s) :
        LET a == 7 + sec IN
        /\ Len(s) >= a + h + p
        /\ SubSeq(s, 1, 4) = <<"h", "t", "t", "p">>
        /\ (sec = 1 => s[5] = "s")
        /\ SubSeq(s, 5 + sec, 7 + sec) = <<":", "/", "/">>
        /\ AllHost(SubSeq(s, a + 1, a + h))
        /\ MatchPort(SubSeq(s, a + h + 1, a + h + p))
        /\ MatchTail(SubSeq(s, a + h + p + 1, Len(s)))

\* regexp.Match(urlpattern, url): the pattern has no ^, so a match may start
\* anywhere in the text.
UrlMatch(url) == \E i \in 1..Len(url) : MatchAt(SubSeq(url, i, Len(url)))

\* strings.TrimSuffix
TrimSuffix(s, suffix) ==
    IF /\ Len(s) >= Len(suffix)
       /\ SubSeq(s, Len(s) - Len(suffix) + 1, Len(s)) = suffix
    THEN SubSeq(s, 1, Len(s) - Len(suffix))
    ELSE s

DigitValue(c) == (CHOOSE i \in 1..10 : Digits[i] = c) - 1

RECURSIVE DecimalValue(_)
DecimalValue(s) ==
    IF s = <<>> THEN 0
    ELSE 10 * DecimalValue(SubSeq(s, 1, Len(s) - 1)) + DigitValue(s[Len(s)])

\* strconv.Atoi: an optional sign followed by at least one decimal digit.
Atoi(s) ==
    LET signed == s # <<>> /\ s[1] \in {"+", "-"}
        body   == IF signed THEN Tail(s) ELSE s
    IN  IF body = <<>> \/ ~AllDigit(body)
        THEN [ok |-> FALSE, val |-> 0]
        ELSE [ok |-> TRUE,
              val |-> IF signed /\ s[1] = "-"
                      THEN 0 - DecimalValue(body)
                      ELSE DecimalValue(body)]

\* the line terminator PrintItemSelection and GetUsername strip
LineEnd(os) == IF os = "windows" THEN <<"\r", "\n">> ELSE <<"\n">>

Upper ==
    <<"A", "B", "C", "D", "E", "F", "G", "H", "I", "J", "K", "L", "M",
      "N", "O", "P", "Q", "R", "S", "T", "U", "V", "W", "X", "Y", "Z">>

Lower ==
    <<"a", "b", "c", "d", "e", "f", "g", "h", "i", "j", "k", "l", "m",
      "n", "o", "p", "q", "r", "s", "t", "u", "v", "w", "x", "y", "z">>

\* strings.ToLower
ToLower(s) ==
    [i \in 1..Len(s) |->
        IF \E k \in 1..26 : Upper[k] = s[i]
        THEN Lower[CHOOSE k \in 1..26 : Upper[k] = s[i]]
        ELSE s[i]]

\* the white space strings.TrimSpace removes
IsSpace(c) == c \in {" ", "\t", "\n", "\r"}

\* strings.TrimSpace
RECURSIVE TrimSpace(_)
TrimSpace(s) ==
    IF s = <<>> THEN s
    ELSE IF IsSpace(s[1]) THEN TrimSpace(Tail(s))
    ELSE IF IsSpace(s[Len(s)]) THEN TrimSpace(SubSeq(s, 1, Len(s) - 1))
    ELSE s

(* ------------------------------ inputs --------------------------------- *)

Http == <<"h", "t", "t", "p">>

\* -url values: empty, well formed, and malformed in the ways the pattern
\* distinguishes.
Urls ==
    { <<>>,
      Http \o <<"s", ":", "/", "/", "j", "f", ":", "8", "0", "/", "w">>,
      <<"x">> \o Http \o <<":", "/", "/", "j", "f", "/">>,
      <<"f", "t", "p", ":", "/", "/", "j", "f">>,
      Http \o <<":", "/", "/">>,
      Http \o <<":", "/", "/", "j", "f", ":", "/">>,
      Http \o <<":", "/", "/", "j", "f", " ", "x">> }

\* -username, JF_USERNAME, -password and JF_PASSWORD: each field with its
\* flag and its environment variable set or not, in the four combinations
CredentialCases ==
    { [Username |-> <<"u">>, JF_USERNAME |-> <<>>,
       Password |-> <<>>, JF_PASSWORD |-> <<"q">>],
      [Username |-> <<>>, JF_USERNAME |-> <<"e">>,
       Password |-> <<"p">>, JF_PASSWORD |-> <<"q">>],
      [Username |-> <<"u">>, JF_USERNAME |-> <<"e">>,
       Password |-> <<>>, JF_PASSWORD |-> <<>>],
      [Username |-> <<>>, JF_USERNAME |-> <<>>,
       Password |-> <<"p">>, JF_PASSWORD |-> <<>>] }

ItemTypes == {"Series", "Movie", "Unknown"}

\* ids of the items of one search result, by position
ItemIds == <<"I1", "I2", "I3", "I4", "I5", "I6", "I7", "I8", "I9">>

\* a nil *jf_requests.Item
NoItem == [Id |-> "", Type |-> ""]

SeasonIds == {"s1", "s2"}

\* -seasonid values; "s9" is the id of no season
SeasonArgs == {"", "s1", "s9"}

\* a nil *jf_requests.Series
NoSeries == [Id |-> "", Seasons |-> {}]

\* a nil *jf_requests.Movie
NoMovie == [Id |-> ""]

\* the lists jf_requests.GetItemsForText can return
RECURSIVE SeqsUpTo(_, _)
SeqsUpTo(S, n) ==
    IF n = 0 THEN { <<>> }
    ELSE LET shorter == SeqsUpTo(S, n - 1)
         IN  shorter \cup { Append(q, x) : q \in { r \in shorter : Len(r) = n - 1 }, x \in S }

\* a search result whose items have the given types: a []jf_requests.Item
ItemsOf(types) == [i \in 1..Len(types) |-> [Id |-> ItemIds[i], Type |-> types[i]]]

SearchResults == { ItemsOf(types) : types \in SeqsUpTo(ItemTypes, MaxItems) }

\* lines a user can type at the "==> " prompt (what ReadString('\n') returns)
SelectionLines ==
    { <<Digits[n + 1], "\n">> : n \in 0..(MaxItems + 1) }
    \cup { <<"-", "1", "\n">>, <<"+", "1", "\n">>, <<"1", "0", "\n">>,
           <<"a", "\n">>, <<" ", "1", "\n">>, <<"\n">>, <<>>,
           <<"1", "\r", "\n">>, <<"2">> }

\* lines a user can type at the "Username: " prompt
UsernameLines == { <<"\n">>, <<"u", "\n">>, <<"u", "\r", "\n">> }

\* what term.ReadPassword can return
PasswordInputs == { <<>>, <<"p">> }

\* lines a user can type at the "Continue? y/n: " prompt: what
\* ReadString('\n') returns holds no "\n" before its last character
ConfirmationLines ==
    { l \in SeqsUpTo({"y", "Y", "n", "e", "s", " ", "\r", "\n"}, MaxLineLen) :
          \A i \in 1..(Len(l) - 1) : l[i] # "\n" }

(* ------------------------------- state --------------------------------- *)

VARIABLES
    args,             \* Arguments, as ParseCLIArgs returns it
    env,              \* JF_USERNAME and JF_PASSWORD
    goos,             \* runtime.GOOS
    pc,               \* the statement main has reached
    exitCode,         \* the process's exit status, meaningful when pc = "exit"
    calls,            \* the external calls and prompts made so far, in order
    username,         \* main's username
    password,         \* main's password
    items,            \* Download's items
    selection,        \* PrintItemSelection's parsed response
    item,             \* Download's item
    seasonId,         \* DownloadSeries's seasonId parameter
    series,           \* DownloadSeries's series
    selected_seasons, \* DownloadSeries's selected_seasons
    movie,            \* DownloadMovie's movie
    confirm,          \* the confirmation's answer: "none", "yes" or "no"
    failed,           \* the stage or error that ended the run, "" while none has
    downloads,        \* what the download executor was called with
    stdin             \* the line GetConfirmation read from standard input

vars == <<args, env, goos, pc, exitCode, calls, username, password, items,
          selection, item, seasonId, series, selected_seasons, movie, confirm,
          failed, downloads, stdin>>

NoSelection == [ok |-> FALSE, val |-> 0, read |-> FALSE]

Init ==
    /\ \E c \in CredentialCases :
           /\ args \in [BaseUrl : Urls, Username : {c.Username},
                        Password : {c.Password}, SeriesId : {"", "I1"},
                        SeasonId : SeasonArgs, Name : {"", "Show"},
                        Version : BOOLEAN]
           /\ env = [JF_USERNAME |-> c.JF_USERNAME, JF_PASSWORD |-> c.JF_PASSWORD]
    /\ goos \in {"linux", "windows"}
    /\ pc = "main"
    /\ exitCode = 0
    /\ calls = <<>>
    /\ username = <<>>
    /\ password = <<>>
    /\ items = <<>>
    /\ selection = NoSelection
    /\ item = NoItem
    /\ seasonId = ""
    /\ series = NoSeries
    /\ selected_seasons = {}
    /\ movie = NoMovie
    /\ confirm = "none"
    /\ failed = ""
    /\ downloads = <<>>
    /\ stdin = <<>>

Has(call) == \E i \in 1..Len(calls) : calls[i] = call

\* os.Exit(code), or main returning (code 0)
Exit(code) == pc' = "exit" /\ exitCode' = code

\* main, lines 259-262: Download's result decides the exit status
Return(result) == Exit(IF result THEN 0 ELSE 1)

(* ------------------------------ functions ------------------------------ *)

\* CheckArguments without the test of lines 62-64
CheckArgumentsNoIdTest(a) ==
    IF a.BaseUrl = <<>>
    THEN [status |-> FALSE, msg |-> "No URL was given"]
    ELSE IF ~UrlMatch(a.BaseUrl)
    THEN [status |-> FALSE, msg |-> "URL was supplied in the wrong pattern"]
    ELSE [status |-> TRUE, msg |-> ""]

\* CheckArguments, lines 50-67
CheckArguments(a) ==
    IF a.BaseUrl = <<>>
    THEN [status |-> FALSE, msg |-> "No URL was given"]
    ELSE IF ~UrlMatch(a.BaseUrl)
    THEN [status |-> FALSE, msg |-> "URL was supplied in the wrong pattern"]
    ELSE IF a.SeriesId = "" /\ a.Name = ""
    THEN [status |-> FALSE, msg |-> "No SeriesID or Name was given"]
    ELSE [status |-> TRUE, msg |-> ""]

\* GetUsername looking at the environment before the flag
UsernameSourceEnvFirst(a, e) ==
    IF e.JF_USERNAME # <<>> THEN "env"
    ELSE IF a.Username # <<>> THEN "flag"
    ELSE "prompt"

\* GetUsername, lines 69-86: the source of the value, then the value
UsernameSource(a, e) ==
    IF a.Username # <<>> THEN "flag"
    ELSE IF e.JF_USERNAME # <<>> THEN "env"
    ELSE "prompt"

GetUsername(a, e, os, line) ==
    CASE UsernameSource(a, e) = "flag" -> a.Username
      [] UsernameSource(a, e) = "env" -> e.JF_USERNAME
      [] OTHER -> TrimSuffix(line, LineEnd(os))

\* GetPassword, lines 88-100
PasswordSource(a, e) ==
    IF a.Password # <<>> THEN "flag"
    ELSE IF e.JF_PASSWORD # <<>> THEN "env"
    ELSE "prompt"

GetPassword(a, e, typed) ==
    CASE PasswordSource(a, e) = "flag" -> a.Password
      [] PasswordSource(a, e) = "env" -> e.JF_PASSWORD
      [] OTHER -> typed

\* GetConfirmation without the strings.ToLower of line 106
GetConfirmationCaseSensitive(line) == TrimSpace(line) = <<"y">>

\* GetConfirmation, lines 102-109, on the line it read
GetConfirmation(line) == ToLower(TrimSpace(line)) = <<"y">>

\* PrintItemSelection, line 129: the range check
SelectionRejected(sel, n) == sel < 0 \/ sel > n

\* the index of line 133 without its "-1"
SelectionIndexOffByOne(sel) == sel

\* PrintItemSelection, line 133: the (0-based) index of the chosen element
SelectionIndex(sel) == sel - 1

\* PrintItemSelection, lines 118-137, on the line the user typed.
\* kind is "item", "error", or "panic" (Go's index out of range).
PrintItemSelection(itemsToSelect, os, line) ==
    LET response == TrimSuffix(line, LineEnd(os))
        parsed   == Atoi(response)
        idx      == SelectionIndex(parsed.val)
    IN  IF ~parsed.ok
        THEN [kind |-> "error", item |-> NoItem, err |-> "Only provide a single number"]
        ELSE IF SelectionRejected(parsed.val, Len(itemsToSelect))
        THEN [kind |-> "error", item |-> NoItem, err |-> "Invalid Selection"]
        ELSE IF idx < 0 \/ idx >= Len(itemsToSelect)
        THEN [kind |-> "panic", item |-> NoItem, err |-> "index out of range"]
        ELSE [kind |-> "item", item |-> itemsToSelect[idx + 1], err |-> ""]

\* a router that sends everything but a "Movie" down the Series path
IsSeriesUnlessMovie(it) == it.Type # "Movie"

\* Download, lines 197 and 221: the router's test
IsSeries(it) == it.Type = "Series"

\* Download, line 222: the season id the -name path hands to DownloadSeries
NamePathSeasonId(a) == ""

\* Download, line 198: the season id the -seriesid path hands to DownloadSeries
IdPathSeasonId(a) == a.SeasonId

\* DownloadSeries without the test of line 166
SeriesDownloadsUnasked(answer) == TRUE

\* DownloadSeries, line 166: whether DownloadEpisodes is called
SeriesDownloads(answer) == answer

\* DownloadMovie, line 180: whether DownloadMovie is called
MovieDownloads(answer) == answer

\* jf_requests.DownloadEpisodes and jf_requests.DownloadMovie: the transfer
\* succeeds (TRUE) or fails (FALSE)
DownloadOutcomes == BOOLEAN

\* Series.GetSeasonForId: the season of the series with that id, or an error
GetSeasonForId(s, id) ==
    IF id \in s.Seasons
    THEN [ok |-> TRUE, seasons |-> {id}]
    ELSE [ok |-> FALSE, seasons |-> {}]

\* Series.PrintAndGetSelection: zero or more of the series' seasons
SelectableSeasons(s) == SUBSET s.Seasons

(* ------------------------------- actions ------------------------------- *)

\* main, lines 239-242
ShowVersion ==
    /\ pc = "main"
    /\ args.Version
    /\ calls' = Append(calls, "ShowVersionInfo")
    /\ Exit(0)
    /\ UNCHANGED <<stdin, args, env,
                   goos, username, password, items, selection, item,
                   seasonId, series, selected_seasons, movie, confirm, failed,
                   downloads>>

\* main with CheckArguments not behind the -version test of lines 239-242
ValidateBeforeVersion ==
    /\ pc = "main"
    /\ calls' = Append(calls, "CheckArguments")
    /\ IF CheckArguments(args).status
       THEN pc' = "GetUsername" /\ UNCHANGED <<exitCode, failed>>
       ELSE Exit(1) /\ failed' = "CheckArguments"
    /\ UNCHANGED <<stdin, args, env,
                   goos, username, password, items, selection, item,
                   seasonId, series, selected_seasons, movie, confirm, downloads>>

\* main, lines 244-247
Validate ==
    /\ pc = "main"
    /\ ~args.Version
    /\ calls' = Append(calls, "CheckArguments")
    /\ IF CheckArguments(args).status
       THEN pc' = "GetUsername" /\ UNCHANGED <<exitCode, failed>>
       ELSE Exit(1) /\ failed' = "CheckArguments"
    /\ UNCHANGED <<stdin, args, env,
                   goos, username, password, items, selection, item,
                   seasonId, series, selected_seasons, movie, confirm, downloads>>

\* main, line 249
ResolveUsername ==
    /\ pc = "GetUsername"
    /\ IF UsernameSource(args, env) = "prompt"
       THEN \E line \in UsernameLines :
                /\ username' = GetUsername(args, env, goos, line)
                /\ calls' = Append(calls, "PromptUsername")
       ELSE /\ username' = GetUsername(args, env, goos, <<>>)
            /\ UNCHANGED calls
    /\ pc' = "GetPassword"
    /\ UNCHANGED <<stdin, args, env,
                   goos, exitCode, password, items, selection, item,
                   seasonId, series, selected_seasons, movie, confirm, failed,
                   downloads>>

\* main going from GetPassword straight to Download, without line 252
ResolvePasswordNoAuthorize ==
    /\ pc = "GetPassword"
    /\ IF PasswordSource(args, env) = "prompt"
       THEN \E typed \in PasswordInputs :
                /\ password' = GetPassword(args, env, typed)
                /\ calls' = Append(calls, "PromptPassword")
       ELSE /\ password' = GetPassword(args, env, <<>>)
            /\ UNCHANGED calls
    /\ pc' = "Download"
    /\ UNCHANGED <<stdin, args, env,
                   goos, exitCode, username, items, selection, item,
                   seasonId, series, selected_seasons, movie, confirm, failed,
                   downloads>>

\* main, line 250
ResolvePassword ==
    /\ pc = "GetPassword"
    /\ IF PasswordSource(args, env) = "prompt"
       THEN \E typed \in PasswordInputs :
                /\ password' = GetPassword(args, env, typed)
                /\ calls' = Append(calls, "PromptPassword")
       ELSE /\ password' = GetPassword(args, env, <<>>)
            /\ UNCHANGED calls
    /\ pc' = "Authorize"
    /\ UNCHANGED <<stdin, args, env,
                   goos, exitCode, username, items, selection, item,
                   seasonId, series, selected_seasons, movie, confirm, failed,
                   downloads>>

\* main, lines 252-257
Authorize ==
    /\ pc = "Authorize"
    /\ calls' = Append(calls, "Authorize")
    /\ \E ok \in BOOLEAN :
           IF ok
           THEN pc' = "Download" /\ UNCHANGED <<exitCode, failed>>
           ELSE Exit(1) /\ failed' = "Authorize"
    /\ UNCHANGED <<stdin, args, env,
                   goos, username, password, items, selection, item,
                   seasonId, series, selected_seasons, movie, confirm, downloads>>

\* Download with the tests of lines 190 and 203 in the other order
DownloadNameFirst ==
    /\ pc = "Download"
    /\ IF args.Name # ""
       THEN pc' = "GetItemsForText" /\ UNCHANGED <<exitCode, failed>>
       ELSE IF args.SeriesId # ""
       THEN pc' = "GetItemForId" /\ UNCHANGED <<exitCode, failed>>
       ELSE Return(FALSE) /\ failed' = "Download"
    /\ UNCHANGED <<stdin, args, env,
                   goos, calls, username, password, items, selection,
                   item, seasonId, series, selected_seasons, movie, confirm,
                   downloads>>

\* Download, lines 190, 203 and 229: which lookup resolves the item
Download ==
    /\ pc = "Download"
    /\ IF args.SeriesId # ""
       THEN pc' = "GetItemForId" /\ UNCHANGED <<exitCode, failed>>
       ELSE IF args.Name # ""
       THEN pc' = "GetItemsForText" /\ UNCHANGED <<exitCode, failed>>
       ELSE Return(FALSE) /\ failed' = "Download"
    /\ UNCHANGED <<stdin, args, env,
                   goos, calls, username, password, items, selection,
                   item, seasonId, series, selected_seasons, movie, confirm,
                   downloads>>

\* Download, lines 197-201 and 221-225: the router
Route(it) == pc' = IF IsSeries(it) THEN "DownloadSeries" ELSE "DownloadMovie"

\* Download, lines 191-201
LookupById ==
    /\ pc = "GetItemForId"
    /\ calls' = Append(calls, "GetItemForId")
    /\ \/ /\ Return(FALSE)
          /\ failed' = "GetItemForId"
          /\ UNCHANGED <<item, seasonId>>
       \/ \E type \in ItemTypes :
              LET it == [Id |-> args.SeriesId, Type |-> type] IN
              /\ item' = it
              /\ Route(it)
              /\ seasonId' = IF IsSeries(it) THEN IdPathSeasonId(args) ELSE seasonId
              /\ UNCHANGED <<exitCode, failed>>
    /\ UNCHANGED <<stdin, args, env,
                   goos, username, password, items, selection,
                   series, selected_seasons, movie, confirm, downloads>>

\* Download without the test of lines 210-213
SearchNoEmptyTest ==
    /\ pc = "GetItemsForText"
    /\ calls' = Append(calls, "GetItemsForText")
    /\ \/ /\ Return(FALSE)
          /\ failed' = "GetItemsForText"
          /\ UNCHANGED items
       \/ \E found \in SearchResults :
              /\ items' = found
              /\ pc' = "PrintItemSelection"
              /\ UNCHANGED <<exitCode, failed>>
    /\ UNCHANGED <<stdin, args, env,
                   goos, username, password, selection, item,
                   seasonId, series, selected_seasons, movie, confirm, downloads>>

\* Download, lines 204-213
Search ==
    /\ pc = "GetItemsForText"
    /\ calls' = Append(calls, "GetItemsForText")
    /\ \/ /\ Return(FALSE)
          /\ failed' = "GetItemsForText"
          /\ UNCHANGED items
       \/ \E found \in SearchResults :
              /\ items' = found
              /\ IF Len(found) = 0
                 THEN Return(FALSE) /\ failed' = "NoMatches"
                 ELSE pc' = "PrintItemSelection" /\ UNCHANGED <<exitCode, failed>>
    /\ UNCHANGED <<stdin, args, env,
                   goos, username, password, selection, item,
                   seasonId, series, selected_seasons, movie, confirm, downloads>>

\* Download, lines 215-225, with PrintItemSelection, lines 111-138.
\* An index out of range ends the process with the Go runtime's status 2.
Select ==
    /\ pc = "PrintItemSelection"
    /\ calls' = Append(calls, "PrintItemSelection")
    /\ \E line \in SelectionLines :
           LET r == PrintItemSelection(items, goos, line)
               parsed == Atoi(TrimSuffix(line, LineEnd(goos)))
           IN  /\ selection' = [ok |-> parsed.ok, val |-> parsed.val, read |-> TRUE]
               /\ item' = r.item
               /\ CASE r.kind = "item" ->
                         /\ Route(r.item)
                         /\ seasonId' = IF IsSeries(r.item)
                                        THEN NamePathSeasonId(args) ELSE seasonId
                         /\ UNCHANGED <<exitCode, failed>>
                    [] r.kind = "error" ->
                         /\ Return(FALSE)
                         /\ failed' = r.err
                         /\ UNCHANGED seasonId
                    [] OTHER ->
                         /\ Exit(2)
                         /\ failed' = r.err
                         /\ UNCHANGED seasonId
    /\ UNCHANGED <<stdin, args, env,
                   goos, username, password, items, series,
                   selected_seasons, movie, confirm, downloads>>

\* DownloadSeries, lines 141-145
FetchSeries ==
    /\ pc = "DownloadSeries"
    /\ calls' = Append(calls, "GetSeriesFromItem")
    /\ \/ /\ Return(FALSE)
          /\ failed' = "GetSeriesFromItem"
          /\ UNCHANGED series
       \/ \E seasons \in SUBSET SeasonIds :
              /\ series' = [Id |-> item.Id, Seasons |-> seasons]
              /\ pc' = "SelectSeasons"
              /\ UNCHANGED <<exitCode, failed>>
    /\ UNCHANGED <<stdin, args, env,
                   goos, username, password, items, selection, item,
                   seasonId, selected_seasons, movie, confirm, downloads>>

\* DownloadSeries, lines 147-162
SelectSeasons ==
    /\ pc = "SelectSeasons"
    /\ IF seasonId # ""
       THEN LET r == GetSeasonForId(series, seasonId) IN
            /\ calls' = Append(calls, "GetSeasonForId")
            /\ selected_seasons' = r.seasons
            /\ IF r.ok
               THEN pc' = "SeriesConfirmation" /\ UNCHANGED <<exitCode, failed>>
               ELSE Return(FALSE) /\ failed' = "GetSeasonForId"
       ELSE /\ calls' = Append(calls, "PrintAndGetSelection")
            /\ \/ /\ Return(FALSE)
                  /\ failed' = "PrintAndGetSelection"
                  /\ UNCHANGED selected_seasons
               \/ \E chosen \in SelectableSeasons(series) :
                      /\ selected_seasons' = chosen
                      /\ pc' = "SeriesConfirmation"
                      /\ UNCHANGED <<exitCode, failed>>
    /\ UNCHANGED <<stdin, args, env,
                   goos, username, password, items, selection, item,
                   seasonId, series, movie, confirm, downloads>>

\* DownloadSeries, lines 164-170
ConfirmSeries ==
    /\ pc = "SeriesConfirmation"
    /\ calls' = Append(calls, "SeriesConfirmation")
    /\ \E answer \in BOOLEAN :
           /\ confirm' = IF answer THEN "yes" ELSE "no"
           /\ IF SeriesDownloads(answer)
              THEN pc' = "DownloadEpisodes" /\ UNCHANGED exitCode
              ELSE Return(TRUE)
    /\ UNCHANGED <<stdin, args, env,
                   goos, username, password, items, selection, item,
                   seasonId, series, selected_seasons, movie, failed, downloads>>

\* DownloadSeries handing every season of the series to the executor
DownloadEpisodesAllSeasons ==
    /\ pc = "DownloadEpisodes"
    /\ calls' = Append(calls, "DownloadEpisodes")
    /\ \E ok \in DownloadOutcomes :
           downloads' = Append(downloads,
               [fn |-> "DownloadEpisodes", seasons |-> series.Seasons,
                movie |-> NoMovie, ok |-> ok])
    /\ Return(TRUE)
    /\ UNCHANGED <<stdin, args, env,
                   goos, username, password, items, selection, item,
                   seasonId, series, selected_seasons, movie, confirm, failed>>

\* DownloadSeries, lines 167-170: the executor's outcome is not looked at
DownloadEpisodes ==
    /\ pc = "DownloadEpisodes"
    /\ calls' = Append(calls, "DownloadEpisodes")
    /\ \E ok \in DownloadOutcomes :
           downloads' = Append(downloads,
               [fn |-> "DownloadEpisodes", seasons |-> selected_seasons,
                movie |-> NoMovie, ok |-> ok])
    /\ Return(TRUE)
    /\ UNCHANGED <<stdin, args, env,
                   goos, username, password, items, selection, item,
                   seasonId, series, selected_seasons, movie, confirm, failed>>

\* DownloadMovie, lines 174-178
FetchMovie ==
    /\ pc = "DownloadMovie"
    /\ calls' = Append(calls, "GetMovieFromItem")
    /\ \/ /\ Return(FALSE)
          /\ failed' = "GetMovieFromItem"
          /\ UNCHANGED movie
       \/ /\ movie' = [Id |-> item.Id]
          /\ pc' = "MovieConfirmation"
          /\ UNCHANGED <<exitCode, failed>>
    /\ UNCHANGED <<stdin, args, env,
                   goos, username, password, items, selection, item,
                   seasonId, series, selected_seasons, confirm, downloads>>

\* DownloadMovie, lines 180-184
ConfirmMovie ==
    /\ pc = "MovieConfirmation"
    /\ calls' = Append(calls, "MovieConfirmation")
    /\ \E answer \in BOOLEAN :
           /\ confirm' = IF answer THEN "yes" ELSE "no"
           /\ IF MovieDownloads(answer)
              THEN pc' = "DownloadMovieFile" /\ UNCHANGED exitCode
              ELSE Return(FALSE)
    /\ UNCHANGED <<stdin, args, env,
                   goos, username, password, items, selection, item,
                   seasonId, series, selected_seasons, movie, failed, downloads>>

\* DownloadMovie, lines 181-186: the executor's outcome is not looked at
DownloadMovie ==
    /\ pc = "DownloadMovieFile"
    /\ calls' = Append(calls, "DownloadMovie")
    /\ \E ok \in DownloadOutcomes :
           downloads' = Append(downloads,
               [fn |-> "DownloadMovie", seasons |-> {}, movie |-> movie,
                ok |-> ok])
    /\ Return(TRUE)
    /\ UNCHANGED <<stdin, args, env,
                   goos, username, password, items, selection, item,
                   seasonId, series, selected_seasons, movie, confirm, failed>>

Next ==
    \/ ShowVersion
    \/ Validate
    \/ ResolveUsername
    \/ ResolvePassword
    \/ Authorize
    \/ Download
    \/ LookupById
    \/ Search
    \/ Select
    \/ FetchSeries
    \/ SelectSeasons
    \/ ConfirmSeries
    \/ DownloadEpisodes
    \/ FetchMovie
    \/ ConfirmMovie
    \/ DownloadMovie

Spec == Init /\ [][Next]_vars

(* GetConfirmation is called by nothing in main.go (the confirmations of    *)
(* the run are jf_requests' PrintAndGetConfirmation); it is run here on its *)
(* own, once, on every line of ConfirmationLines.                           *)

InitGetConfirmation ==
    /\ args = [BaseUrl |-> <<>>, Username |-> <<>>, Password |-> <<>>,
               SeriesId |-> "", SeasonId |-> "", Name |-> "",
               Version |-> FALSE]
    /\ env = [JF_USERNAME |-> <<>>, JF_PASSWORD |-> <<>>]
    /\ goos = "linux"
    /\ pc = "GetConfirmation"
    /\ exitCode = 0
    /\ calls = <<>>
    /\ username = <<>>
    /\ password = <<>>
    /\ items = <<>>
    /\ selection = NoSelection
    /\ item = NoItem
    /\ seasonId = ""
    /\ series = NoSeries
    /\ selected_seasons = {}
    /\ movie = NoMovie
    /\ confirm = "none"
    /\ failed = ""
    /\ downloads = <<>>
    /\ stdin = <<>>

\* GetConfirmation, lines 102-109
Confirm ==
    /\ pc = "GetConfirmation"
    /\ calls' = Append(calls, "GetConfirmation")
    /\ \E line \in ConfirmationLines :
           /\ stdin' = line
           /\ confirm' = IF GetConfirmation(line) THEN "yes" ELSE "no"
    /\ pc' = "returned"
    /\ UNCHANGED <<args, env, goos, exitCode, username, password, items,
                   selection, item, seasonId, series, selected_seasons, movie,
                   failed, downloads>>

SpecGetConfirmation == InitGetConfirmation /\ [][Confirm]_vars

(* ------------------------------ properties ----------------------------- *)

Exited(code) == pc = "exit" /\ exitCode = code

Prompts ==
    {"PromptUsername", "PromptPassword", "PrintItemSelection",
     "PrintAndGetSelection", "SeriesConfirmation", "MovieConfirmation"}

NetworkCalls ==
    {"Authorize", "GetItemForId", "GetItemsForText", "GetSeriesFromItem",
     "GetMovieFromItem", "DownloadEpisodes", "DownloadMovie"}

Executor == {"DownloadEpisodes", "DownloadMovie"}

\* the position of the first occurrence of call in calls, 0 if there is none
FirstIndex(call) ==
    IF Has(call) THEN CHOOSE i \in 1..Len(calls) :
                          calls[i] = call /\ \A j \in 1..(i - 1) : calls[j] # call
    ELSE 0

\* C1: the download executor (DownloadEpisodes, DownloadMovie) is invoked
\* only after this run's confirmation prompt, of the same path, has
\* returned true.
C1_DownloadOnlyAfterConfirmation ==
    /\ \A i \in 1..Len(calls) :
           /\ calls[i] = "DownloadEpisodes" =>
                  /\ confirm = "yes"
                  /\ \E j \in 1..(i - 1) : calls[j] = "SeriesConfirmation"
           /\ calls[i] = "DownloadMovie" =>
                  /\ confirm = "yes"
                  /\ \E j \in 1..(i - 1) : calls[j] = "MovieConfirmation"
    /\ downloads # <<>> => confirm = "yes"

C1_Witness ==
    /\ Has("DownloadEpisodes")
    /\ confirm = "yes"
    /\ Len(downloads) = 1

\* C2: a run in which the user declines at the confirmation prompt exits
\* with status 1, for a Series as for a Movie.
C2_DeclineExitsOne ==
    (pc = "exit" /\ confirm = "no") => exitCode = 1

\* C3: a search that returns exactly one item selects it without showing
\* the selection prompt and without reading a selection.
C3_SingleResultNoPrompt ==
    Len(items) = 1 => (~Has("PrintItemSelection") /\ ~selection.read)

\* C4: a numeric selection outside [1, N] makes PrintItemSelection return
\* the "Invalid Selection" error, selects no item, and the run exits with
\* status 1.
C4_OutOfRangeRejected ==
    (/\ selection.read
     /\ selection.ok
     /\ Len(items) >= 1
     /\ selection.val \notin 1..Len(items))
    => (/\ item = NoItem
        /\ failed = "Invalid Selection"
        /\ Exited(1))

\* C5: with N > 1 search results, a numeric selection k in [1, N] hands the
\* k-th listed item to the router.
C5_ValidSelectionPicksKth ==
    (/\ selection.read
     /\ selection.ok
     /\ Len(items) > 1
     /\ selection.val \in 1..Len(items))
    => (/\ item = items[selection.val]
        /\ \/ pc = (IF IsSeries(item) THEN "DownloadSeries" ELSE "DownloadMovie")
           \/ Has(IF IsSeries(item) THEN "GetSeriesFromItem" ELSE "GetMovieFromItem"))

C5_Witness ==
    /\ selection.read
    /\ Len(items) = 2
    /\ selection.val = 2
    /\ item = items[2]
    /\ pc \in {"DownloadSeries", "DownloadMovie"}

\* C6: a failure at any stage aborts the pipeline: the failed stage's call
\* is the run's last and is made once, the download executor is not
\* invoked, and the run exits with status 1.
C6_FailureAborts ==
    failed # "" =>
        /\ Exited(1)
        /\ downloads = <<>>
        /\ \A i \in 1..Len(calls) : calls[i] \notin Executor
        /\ \A i, j \in 1..Len(calls) : calls[i] = calls[j] => i = j

\* C7: on the Series path an empty set of selected seasons never reaches
\* the confirmation prompt nor the download executor.
C7_NoEmptySelectionConfirmed ==
    /\ (pc = "SeriesConfirmation" \/ Has("SeriesConfirmation")) => selected_seasons # {}
    /\ \A i \in 1..Len(downloads) :
           downloads[i].fn = "DownloadEpisodes" => downloads[i].seasons # {}

\* C8: with -seasonid given and a Series resolved, by -seriesid or by -name,
\* no interactive season selection is shown, the candidate set is exactly
\* that season, and an id of no season of the series fails the run at
\* GetSeasonForId.
C8_SeasonIdRestricts ==
    (args.SeasonId # "" /\ item.Type = "Series") =>
        /\ pc = "SelectSeasons" => seasonId = args.SeasonId
        /\ ~Has("PrintAndGetSelection")
        /\ (pc = "SeriesConfirmation" \/ Has("SeriesConfirmation")) =>
               selected_seasons = {args.SeasonId}
        /\ (series # NoSeries /\ pc = "exit" /\ args.SeasonId \notin series.Seasons) =>
               failed = "GetSeasonForId"

\* C9: a resolved item of type "Series" takes the Series path
\* (GetSeriesFromItem, never GetMovieFromItem); an item of any other type
\* takes the Movie path (GetMovieFromItem, no series fetch, no season
\* prompt), on the -seriesid and on the -name path.
C9_RoutingByType ==
    item # NoItem =>
        IF item.Type = "Series"
        THEN /\ ~Has("GetMovieFromItem")
             /\ pc \notin {"DownloadMovie", "MovieConfirmation", "DownloadMovieFile"}
             /\ Has("GetSeriesFromItem") \/ pc = "DownloadSeries"
        ELSE /\ ~Has("GetSeriesFromItem")
             /\ ~Has("PrintAndGetSelection")
             /\ ~Has("GetSeasonForId")
             /\ pc \notin {"DownloadSeries", "SelectSeasons", "SeriesConfirmation",
                           "DownloadEpisodes"}
             /\ Has("GetMovieFromItem") \/ pc = "DownloadMovie"

C9_Witness ==
    /\ args.SeriesId = ""
    /\ item.Type = "Unknown"
    /\ Has("GetMovieFromItem")
    /\ ~Has("GetSeriesFromItem")

\* C10: when the arguments are invalid (URL empty or not matching the
\* pattern, or neither -seriesid nor -name) the run exits with status 1
\* with no credential prompt and no network call; and no prompt or network
\* call happens before CheckArguments has returned true.
C10_ValidationBeforeNetwork ==
    LET invalid == \/ args.BaseUrl = <<>>
                   \/ ~UrlMatch(args.BaseUrl)
                   \/ (args.SeriesId = "" /\ args.Name = "")
    IN  /\ (~args.Version /\ invalid /\ pc # "main") =>
               /\ Exited(1)
               /\ calls = <<"CheckArguments">>
        /\ \A i \in 1..Len(calls) :
               calls[i] \in NetworkCalls \cup Prompts =>
                   /\ ~invalid
                   /\ FirstIndex("CheckArguments") \in 1..(i - 1)

C10_Witness ==
    /\ args.BaseUrl # <<>>
    /\ ~UrlMatch(args.BaseUrl)
    /\ args.SeriesId # ""
    /\ Exited(1)
    /\ calls = <<"CheckArguments">>

\* C11: with both -seriesid and -name given (and a valid URL) validation
\* passes and the item is resolved by GetItemForId only: the text search
\* and the selection prompt never occur, also when the lookup fails.
C11_IdTakesPriority ==
    (/\ args.SeriesId # ""
     /\ args.Name # ""
     /\ ~args.Version
     /\ args.BaseUrl # <<>>
     /\ UrlMatch(args.BaseUrl))
    => (/\ failed # "CheckArguments"
        /\ pc \notin {"GetItemsForText", "PrintItemSelection"}
        /\ ~Has("GetItemsForText")
        /\ ~Has("PrintItemSelection")
        /\ items = <<>>
        /\ ~selection.read
        /\ item # NoItem => Has("GetItemForId")
        /\ (pc = "exit" /\ Has("Authorize") /\ failed # "Authorize") =>
               Has("GetItemForId"))

C11_Witness ==
    /\ args.SeriesId # ""
    /\ args.Name # ""
    /\ failed = "GetItemForId"
    /\ Exited(1)

\* C12: a search that succeeds with zero items fails the run (no matches):
\* no selection prompt, no metadata fetch, no download, exit status 1.
C12_NoMatchesAborts ==
    (Has("GetItemsForText") /\ items = <<>> /\ failed # "GetItemsForText") =>
        /\ failed = "NoMatches"
        /\ Exited(1)
        /\ calls[Len(calls)] = "GetItemsForText"
        /\ ~selection.read
        /\ item = NoItem
        /\ downloads = <<>>

C12_Witness ==
    /\ Has("GetItemsForText")
    /\ items = <<>>
    /\ failed = "NoMatches"
    /\ Exited(1)

\* C14: with -version set, whatever the other arguments, the run prints the
\* version and exits with status 0 without validation, credential
\* resolution or any network call.
C14_VersionBypassesAll ==
    (args.Version /\ pc # "main") =>
        /\ Exited(0)
        /\ calls = <<"ShowVersionInfo">>
        /\ failed = ""
        /\ username = <<>>
        /\ password = <<>>

C14_Witness ==
    /\ args.Version
    /\ args.BaseUrl = <<>>
    /\ args.SeriesId = ""
    /\ args.Name = ""
    /\ Exited(0)
    /\ calls = <<"ShowVersionInfo">>

\* C13: when the download executor was invoked and the download failed,
\* the run exits with status 1, on the Series and on the Movie path.
C13_FailedDownloadExitsOne ==
    (pc = "exit" /\ \E i \in 1..Len(downloads) : ~downloads[i].ok) => exitCode = 1

Count(call) == Cardinality({i \in 1..Len(calls) : calls[i] = call})

\* C17: at most one selection input is read in a run, and a non-numeric or
\* out-of-range selection ends the run with status 1, with no metadata
\* fetch and no download.
C17_SelectionSingleShot ==
    /\ Count("PrintItemSelection") <= 1
    /\ (selection.read /\ (~selection.ok \/ selection.val \notin 1..Len(items))) =>
           /\ Exited(1)
           /\ calls[Len(calls)] = "PrintItemSelection"
           /\ item = NoItem
           /\ downloads = <<>>

\* the stage a call belongs to, in the order main runs the stages
Stage(call) ==
    CASE call = "ShowVersionInfo" -> 0
      [] call = "CheckArguments" -> 1
      [] call = "PromptUsername" -> 2
      [] call = "PromptPassword" -> 3
      [] call = "Authorize" -> 4
      [] call \in {"GetItemForId", "GetItemsForText"} -> 5
      [] call = "PrintItemSelection" -> 6
      [] call \in {"GetSeriesFromItem", "GetMovieFromItem"} -> 7
      [] call \in {"GetSeasonForId", "PrintAndGetSelection"} -> 8
      [] call \in {"SeriesConfirmation", "MovieConfirmation"} -> 9
      [] call \in Executor -> 10

\* the calls of a run are made in the order of their stages, each at most
\* once, and none without the stage it depends on
StagesInSequence ==
    /\ \A i, j \in 1..Len(calls) : i < j => Stage(calls[i]) < Stage(calls[j])
    /\ Has("Authorize") =>
           /\ Has("CheckArguments")
           /\ pc # "Authorize"
    /\ \A i \in 1..Len(calls) :
           /\ Stage(calls[i]) = 5 => Has("Authorize")
           /\ Stage(calls[i]) = 7 => Has("GetItemForId") \/ Has("GetItemsForText")
           /\ Stage(calls[i]) = 9 => Has("GetSeriesFromItem") \/ Has("GetMovieFromItem")
           /\ Stage(calls[i]) = 10 => Has("SeriesConfirmation") \/ Has("MovieConfirmation")

\* C18 as stated: every run calls Authorize exactly once, and the stages
\* run in sequence.
C18_AuthorizeOnceInEveryRun ==
    /\ StagesInSequence
    /\ pc = "exit" => Count("Authorize") = 1

\* C18, amended: Authorize is called exactly once in every run whose
\* arguments pass validation and in no other run (a -version run or a run
\* with invalid arguments ends without it), after validation and
\* credential resolution and before any catalog call; resolution precedes
\* the metadata fetch, which precedes the confirmation, which precedes any
\* download.
C18_StagesInSequence ==
    /\ StagesInSequence
    /\ pc = "exit" =>
           Count("Authorize") =
               IF ~args.Version /\ CheckArguments(args).status THEN 1 ELSE 0
    /\ pc \in {"main", "GetUsername", "GetPassword", "Authorize"} => ~Has("Authorize")

C18_Witness ==
    /\ pc = "exit"
    /\ Has("DownloadMovie")
    /\ Count("Authorize") = 1
    /\ Has("PrintItemSelection")

\* C19: every run ends in a normal exit with status 0 or 1, never in an
\* abnormal termination.
C19_NormalExit ==
    pc = "exit" => exitCode \in {0, 1}

\* C20: the download executor is invoked at most once in a run, and with
\* what this run resolved: DownloadEpisodes with the seasons selected for
\* the Series item, DownloadMovie with the movie fetched for the
\* non-Series item; never both.
C20_OneDownloadOfOwnEntity ==
    /\ Len(downloads) <= 1
    /\ Count("DownloadEpisodes") + Count("DownloadMovie") = Len(downloads)
    /\ \A i \in 1..Len(downloads) :
           IF downloads[i].fn = "DownloadEpisodes"
           THEN /\ item.Type = "Series"
                /\ series.Id = item.Id
                /\ downloads[i].seasons = selected_seasons
                /\ selected_seasons \subseteq series.Seasons
                /\ ~Has("GetMovieFromItem")
                /\ movie = NoMovie
           ELSE /\ downloads[i].fn = "DownloadMovie"
                /\ item # NoItem
                /\ item.Type # "Series"
                /\ downloads[i].movie = movie
                /\ movie.Id = item.Id
                /\ ~Has("GetSeriesFromItem")
                /\ series = NoSeries

C20_Witness ==
    /\ Len(downloads) = 1
    /\ downloads[1].fn = "DownloadEpisodes"
    /\ downloads[1].seasons = {"s1"}
    /\ series.Seasons = {"s1", "s2"}
    /\ pc = "exit"

\* C15: GetConfirmation reads one line and returns true exactly when the
\* line, lower-cased and stripped of surrounding white space, is "y": a
\* single "y" or "Y" with nothing but white space around it.  "y", "Y" and
\* " y " give true; "yes", "n" and "" give false; it prompts once.
C15_ConfirmationExactlyY ==
    pc = "returned" =>
        /\ confirm = "yes" <=>
               \E i \in 1..Len(stdin) :
                   /\ stdin[i] \in {"y", "Y"}
                   /\ \A j \in 1..Len(stdin) :
                          j # i => stdin[j] \in {" ", "\t", "\r", "\n"}
        /\ stdin \in {<<"y">>, <<"Y">>, <<" ", "y", " ">>,
                      <<"y", "\n">>, <<"Y", "\n">>, <<" ", "y", " ", "\n">>}
               => confirm = "yes"
        /\ stdin \in {<<"y", "e", "s">>, <<"n">>, <<>>,
                      <<"y", "e", "s", "\n">>, <<"n", "\n">>, <<"\n">>}
               => confirm = "no"
        /\ calls = <<"GetConfirmation">>

C15_Witness ==
    /\ pc = "returned"
    /\ stdin = <<" ", "Y", "\r", "\n">>
    /\ confirm = "yes"

====
